---- MODULE Spec2Model ----
(***************************************************************************)
(* Model of the accident-detection edge node (package accident_detector): *)
(* the persistent SystemState store (state.py), the inference loop and    *)
(* the capture loop of AccidentDetectionSystem (system.py), the frame     *)
(* queue between them, and the thread monitor.  Production mode           *)
(* (debug = False) is modelled.                                           *)
(*                                                                         *)
(* Time is an integer number of ticks read by time.time().                 *)
(*                                                                         *)
(* Calls from system.py into SystemState and APIClient are resolved        *)
(* against state.py and api_client.py as they stand: update_accident_state *)
(* (system.py:146), last_accident_time (system.py:219) and                 *)
(* check_accident_resolved (system.py:148) are defined nowhere, so those   *)
(* lines raise AttributeError.  The collaborators behind narrow contracts  *)
(* (configuration getters, camera, motion test, compression, classifier)  *)
(* are modelled by the outcomes of their contract, returning or raising;   *)
(* system.py:239 names image_processor.compress_image although             *)
(* image_processor.py:113 defines compress, so with the files as they      *)
(* stand only the raising outcome of the compression step occurs.          *)
(***************************************************************************)
EXTENDS Integers, Sequences, FiniteSets, TLC

\* ------------------------------------------------------------------ bounds
MaxTime == 2          \* the clock stops advancing at this tick
MaxEvents == 1        \* event ids handed to mark_reported
MaxRequired == 3      \* largest RequiredConsecutiveFrames drawn by ConfirmInit
MaxHist == 5          \* processed frames recorded since a fire or a loop start
MaxPushes == 4        \* frames pushed in a recorded pipeline run
FrameQueueSize == 2   \* Performance.FrameQueueSize (queue.Queue maxsize)
MaxSignals == 2          \* signals delivered to the process
MaxThreads == 2       \* threads ever started under the name "processing"

\* ------------------------------------------------------- program constants
AccidentCooldown == 1              \* Performance.AccidentCooldown, in ticks
AccidentConfidenceThreshold == 7   \* Detection.AccidentConfidenceThreshold, tenths
RequiredConsecutiveFrames == 2     \* Detection.RequiredConsecutiveFrames
MotionEvery == 3                   \* motion detection runs every third frame

None == 0                 \* Python's None, where a field holds an id or a frame
NoCall == "none"

EventIds == 1..MaxEvents
Callers == {"a", "b"}     \* threads that call the store's mutators
NodeIds == {1}

\* class Status(Enum): members and their values
Statuses == {"REPORTED", "VALIDATED", "INVALID", "RESOLVED", "UNKNOWN"}
StatusValue(s) ==
  CASE s = "REPORTED" -> "reported"
    [] s = "VALIDATED" -> "validated"
    [] s = "INVALID" -> "invalid"
    [] s = "RESOLVED" -> "resolved"
    [] s = "UNKNOWN" -> "unknown"
StatusValues == {StatusValue(s) : s \in Statuses}
\* Status(value): the member with that value (ValueError when there is none)
StatusOf(v) == CHOOSE s \in Statuses : StatusValue(s) = v

VARIABLES
  mem,        \* SystemState fields in memory
  disk,       \* the state file: absent, truncated, or holding a pickled dict
  lock,       \* SystemState._lock: "free" or the holder
  cl,         \* position of the thread that is inside a store mutator
  now,        \* time.time()
  phase,      \* "running" or "down" (process killed, not yet restarted)
  api,        \* RemoteClient operation invoked by the latest step, or NoCall
  ppc,        \* processing thread (process_frames): position, "dead" if exited
  n,          \* consecutive_accident_frames
  warm,       \* last_processed_time # 0
  required,   \* self.required_consecutive_frames
  queue,      \* self.frame_queue
  vpc,        \* capture thread (process_video): position
  fcount,     \* frame_count modulo MotionEvery
  held,       \* frame the capture thread is about to push
  \* history variables; each specification says which of them it records
  pre,        \* in-memory state before the mutation in progress
  resumed,    \* this run loaded an open event and no mutator has run since
  hist,       \* (label, confidence) of the frames processed since the last
              \* fire or loop start, the latest one included
  fired,      \* the latest processed frame confirmed an accident
  pushed,     \* frames handed to the push so far, in order
  popped,     \* the inference loop has popped a frame
  skipped,    \* how the inference loop's latest frame_queue.get pass ended:
              \* "timeout", "throttled", "taken"; "none" before the first
  nextId,     \* label of the next captured frame
  \* the threads' life cycle; the specifications above leave these alone
  shut,       \* self.shutdown_event is set
  pool,       \* self.thread_pool: "up", or "down" after shutdown(wait=False)
  cap,        \* camera_manager._cap is not None
  camlock,    \* CameraManager._lock: "free" or the holder
  hpc,        \* heartbeat thread (heartbeat_worker): position
  mpc,        \* monitor thread (monitor_threads): position
  sd,         \* main thread: the shutdown() calls in progress, the running
              \* one last; a signal handler runs on top of what it interrupts
  pthreads,   \* the threads started with target process_frames, in order of
              \* creation: "alive" or "ended"
  \* threads calling the store's mutators at the same time
  tpc,        \* per caller: <<stage, fields still to assign or to read>>
  tsnap,      \* per caller: the values being assigned, then the dict of _save
              \* as far as it is built
  after,      \* the in-memory state after each completed mutation, in order
  seen,       \* the fields as the latest reader of the store found them
  \* the ModelManager and the threads calling it
  mfile,      \* the model file exists at model_path
  loaded,     \* ModelManager._model_loaded
  mlock,      \* ModelManager._lock: "free" or the holder
  qpc         \* per caller: position inside load_model or predict, or
              \* <<"returned", value>>

procVars == <<ppc, n, warm, required>>
liveVars == <<queue, vpc, fcount, held>>
vars == <<mem, disk, lock, cl, now, phase, api, ppc, n, warm, required,
          queue, vpc, fcount, held,
          pre, resumed, hist, fired, pushed, popped, skipped, nextId,
          shut, pool, cap, camlock, hpc, mpc, sd, pthreads,
          tpc, tsnap, after, seen,
          mfile, loaded, mlock, qpc>>
lifeVars == <<shut, pool, cap, camlock, hpc, mpc, sd, pthreads>>
snapVars == <<tpc, tsnap, after, seen>>
modelVars == <<mfile, loaded, mlock, qpc>>

\* ------------------------------------------------------------ state.py
\* SystemState.__init__: default state
Default ==
  [node_id |-> None, last_event_id |-> None, event_status |-> "UNKNOWN",
   last_timestamp |-> 0, unresolved |-> FALSE]

\* _save: the dict handed to pickle.dump
Snapshot(m) ==
  [node_id |-> m.node_id, last_event_id |-> m.last_event_id,
   event_status |-> StatusValue(m.event_status),
   last_timestamp |-> m.last_timestamp, unresolved |-> m.unresolved]

\* the state file: "absent" (os.path.exists is False), "partial" (opened 'wb',
\* so truncated, and the pickle not completely written) or "written"
NoFile == [file |-> "absent", data |-> Snapshot(Default)]
Partial == [file |-> "partial", data |-> Snapshot(Default)]
Written(d) == [file |-> "written", data |-> d]

\* _load on top of the defaults: a missing file returns early; a file that
\* does not unpickle raises before any field is assigned; an unrecognised
\* event_status raises after node_id and last_event_id were assigned.
LoadFromFreshStamp(f) ==
  IF f.file # "written" THEN Default
  ELSE [node_id |-> f.data.node_id, last_event_id |-> f.data.last_event_id,
        event_status |-> StatusOf(f.data.event_status),
        last_timestamp |-> 0, unresolved |-> f.data.unresolved]
LoadFrom(f) ==
  IF f.file # "written" THEN Default
  ELSE IF f.data.event_status \notin StatusValues
       THEN [Default EXCEPT !.node_id = f.data.node_id,
                            !.last_event_id = f.data.last_event_id]
       ELSE [node_id |-> f.data.node_id, last_event_id |-> f.data.last_event_id,
             event_status |-> StatusOf(f.data.event_status),
             last_timestamp |-> f.data.last_timestamp,
             unresolved |-> f.data.unresolved]

\* the bodies of the mutators' `with self._lock:` blocks
mark_node_id(m, id) == [m EXCEPT !.node_id = id]
mark_reported(m, e, t) ==
  [m EXCEPT !.last_event_id = e, !.event_status = "REPORTED",
            !.last_timestamp = t, !.unresolved = TRUE]
mark_validated(m, t) == [m EXCEPT !.event_status = "VALIDATED", !.last_timestamp = t]
mark_invalid(m, t) ==
  [m EXCEPT !.event_status = "INVALID", !.last_timestamp = t, !.unresolved = FALSE]
mark_resolved(m, t) ==
  [m EXCEPT !.event_status = "RESOLVED", !.last_timestamp = t, !.unresolved = FALSE]
clear_unresolved(m) == [m EXCEPT !.unresolved = FALSE]

is_unresolved(m) == m.unresolved
is_in_cooldown(m, t, cooldown) ==
  m.event_status = "VALIDATED" /\ (t - m.last_timestamp) < cooldown
has_cooldown_elapsed(m, t, cooldown) ==
  m.event_status = "VALIDATED" /\ (t - m.last_timestamp) >= cooldown

\* every result a mutator call can produce from m at time t
MutatorResults(m, t) ==
  {mark_node_id(m, id) : id \in NodeIds}
    \cup {mark_reported(m, e, t) : e \in EventIds}
    \cup {mark_validated(m, t), mark_invalid(m, t), mark_resolved(m, t),
          clear_unresolved(m)}

\* ------------------------------------------------------- api_client.py
\* APIClient.send_accident_event(event_data): without image bytes it returns
\* the failure dict before any request is made; otherwise the request's result
ApiSendAccidentEvent(image, reply) ==
  IF image # "bytes" THEN [success |-> FALSE, event_id |-> None]
  ELSE IF reply = None THEN [success |-> FALSE, event_id |-> None]
  ELSE [success |-> TRUE, event_id |-> reply]

\* truth value of a dict in an `if`: any non-empty dict is true
Truthy(d) == DOMAIN d # {}

\* ------------------------------------------------ store mutators, stepwise
\* mark_*: `with self._lock:` assigns the fields ...
MutatorEnter ==
  /\ phase = "running" /\ cl = "idle" /\ lock = "free"
  /\ \E r \in MutatorResults(mem, now) : mem' = r
  /\ lock' = "mutator"
  /\ cl' = "locked"
  /\ api' = NoCall
  /\ UNCHANGED <<disk, now, phase>>
  /\ UNCHANGED <<procVars, liveVars>>

\* ... the lock is released at the end of the with block ...
MutatorRelease ==
  /\ cl = "locked"
  /\ lock' = "free"
  /\ cl' = "released"
  /\ api' = NoCall
  /\ UNCHANGED <<mem, disk, now, phase>>
  /\ UNCHANGED <<procVars, liveVars>>

\* ... then _save: open(filepath, 'wb') truncates the file ...
SaveOpen ==
  /\ cl = "released"
  /\ disk' = Partial
  /\ cl' = "opened"
  /\ api' = NoCall
  /\ UNCHANGED <<mem, lock, now, phase>>
  /\ UNCHANGED <<procVars, liveVars>>

\* ... and pickle.dump writes the dict built from the fields; the file is closed
SaveDump ==
  /\ cl = "opened"
  /\ disk' = Written(Snapshot(mem))
  /\ cl' = "idle"
  /\ api' = NoCall
  /\ UNCHANGED <<mem, lock, now, phase>>
  /\ UNCHANGED <<procVars, liveVars>>

\* _save when os.makedirs or open raises: `except Exception` logs the error,
\* the file is left as it was and the mutator returns
SaveFail ==
  /\ cl = "released"
  /\ cl' = "idle"
  /\ api' = NoCall
  /\ UNCHANGED <<mem, disk, lock, now, phase>>
  /\ UNCHANGED <<procVars, liveVars>>

\* time.time() advances
Tick ==
  /\ now < MaxTime
  /\ now' = now + 1
  /\ api' = NoCall
  /\ UNCHANGED <<mem, disk, lock, cl, phase>>
  /\ UNCHANGED <<procVars, liveVars>>

\* the process is killed: every thread and the memory go, the file stays
\* (mem keeps the lost in-memory value, for comparison at the next start)
Crash ==
  /\ phase = "running"
  /\ phase' = "down"
  /\ cl' = "idle" /\ lock' = "free"
  /\ ppc' = "off" /\ n' = 0 /\ warm' = FALSE
  /\ queue' = <<>> /\ vpc' = "off" /\ fcount' = 0 /\ held' = None
  /\ api' = NoCall
  /\ UNCHANGED <<mem, disk, now, required>>

\* ------------------------------------------------------------ system.py
\* AccidentDetectionSystem.__init__ (SystemState(filepath) loads the file)
\* and start(): register_node, then the worker threads are started; a failed
\* registration exits the process
Boot(ok) ==
  /\ phase = "down"
  /\ api' = "register_node"
  /\ IF ok
     THEN /\ mem' = LoadFrom(disk)
          /\ phase' = "running"
          /\ ppc' = "start" /\ vpc' = "start"
     ELSE UNCHANGED <<mem, phase, ppc, vpc>>
  /\ UNCHANGED <<disk, lock, cl, now, n, warm, required, queue, fcount, held>>

\* process_frames entry: the model is loaded, the counters start at zero
ProcStart ==
  /\ ppc = "start"
  /\ ppc' = "top" /\ n' = 0 /\ warm' = FALSE
  /\ api' = NoCall
  /\ UNCHANGED <<mem, disk, lock, cl, now, phase, required>>
  /\ UNCHANGED liveVars

\* loop head: in cooldown the loop reads self.state.last_accident_time, which
\* SystemState does not define: AttributeError outside any try, the thread exits
ProcGate ==
  /\ ppc = "top" /\ lock = "free"
  /\ ppc' = IF is_in_cooldown(mem, now, AccidentCooldown) THEN "dead" ELSE "get"
  /\ api' = NoCall
  /\ UNCHANGED <<mem, disk, lock, cl, now, phase>>
  /\ UNCHANGED <<n, warm, required>>
  /\ UNCHANGED liveVars

\* frame_queue.get(timeout=1), then the throttle: a frame taken less than
\* 0.2 s after the previous processed one is skipped (last_processed_time
\* starts at 0, so the first frame of a run is never skipped)
ProcGetCounted(throttled) ==
  /\ ppc = "get"
  /\ IF queue = <<>>
     THEN ppc' = "top" /\ UNCHANGED <<queue, warm, n>>
     ELSE /\ queue' = Tail(queue)
          /\ IF warm /\ throttled
             THEN ppc' = "top" /\ n' = 0 /\ UNCHANGED warm
             ELSE ppc' = "classify" /\ warm' = TRUE /\ UNCHANGED n
  /\ api' = NoCall
  /\ UNCHANGED <<mem, disk, lock, cl, now, phase>>
  /\ UNCHANGED <<required, vpc, fcount, held>>
ProcGet(throttled) ==
  /\ ppc = "get"
  /\ IF queue = <<>>
     THEN ppc' = "top" /\ UNCHANGED <<queue, warm>>
     ELSE /\ queue' = Tail(queue)
          /\ IF warm /\ throttled
             THEN ppc' = "top" /\ UNCHANGED warm
             ELSE ppc' = "classify" /\ warm' = TRUE
  /\ api' = NoCall
  /\ UNCHANGED <<mem, disk, lock, cl, now, phase>>
  /\ UNCHANGED <<n, required, vpc, fcount, held>>

Confidences ==
  {AccidentConfidenceThreshold - 1, AccidentConfidenceThreshold,
   AccidentConfidenceThreshold + 1}
\* what compression and prediction hand to the loop: an exception, or a
\* (label, confidence) pair: an accident below, at or above the threshold, or
\* another label
Outcomes ==
  {<<"raise", 0>>}
    \cup ({"accident"} \X Confidences)
    \cup {<<"no_accident", AccidentConfidenceThreshold + 1>>}

\* line 259: the frame counts towards the confirmation
QualifiesAtOrAbove(label, confidence) ==
  label = "accident" /\ confidence >= AccidentConfidenceThreshold
Qualifies(label, confidence) ==
  label = "accident" /\ confidence > AccidentConfidenceThreshold

Max0(x) == IF x > 0 THEN x ELSE 0

\* lines 259-273: the consecutive-frame counter and the confirmation
ObserveStrictReset(cnt, label, confidence, R) ==
  IF Qualifies(label, confidence)
  THEN IF cnt + 1 >= R THEN [n |-> 0, fire |-> TRUE]
       ELSE [n |-> cnt + 1, fire |-> FALSE]
  ELSE [n |-> 0, fire |-> FALSE]
Observe(cnt, label, confidence, R) ==
  IF Qualifies(label, confidence)
  THEN IF cnt + 1 >= R THEN [n |-> 0, fire |-> TRUE]
       ELSE [n |-> cnt + 1, fire |-> FALSE]
  ELSE [n |-> Max0(cnt - 1), fire |-> FALSE]

\* send_accident_event (production branch) after the client call, lines
\* 145-150: a true result goes on to self.state.update_accident_state(), which
\* SystemState does not define, and the AttributeError is logged by the except;
\* a false result skips the block.  Either way the store is as it was.
AfterSendRecorded(m, result, t) ==
  IF Truthy(result) THEN mark_reported(m, 1, t) ELSE m
AfterSend(m, result, t) == m

\* one frame through compression, prediction and the confirmation.  On a
\* confirmation send_accident_event (production branch) calls the client with
\* the base64 text as image, so the client returns its failure dict without a
\* request; the dict is non-empty, hence true, and
\* self.state.update_accident_state() raises AttributeError, which the
\* enclosing except logs: the store is not touched.
ProcClassify(o) ==
  /\ ppc = "classify"
  /\ ppc' = "top"
  /\ IF o[1] = "raise"
     THEN /\ UNCHANGED <<n, mem>>
          /\ api' = NoCall
     ELSE LET r == Observe(n, o[1], o[2], required) IN
          /\ n' = r.n
          /\ api' = IF r.fire THEN "send_accident_event" ELSE NoCall
          /\ mem' = IF r.fire
                    THEN AfterSend(mem, ApiSendAccidentEvent("text", None), now)
                    ELSE mem
  /\ UNCHANGED <<disk, lock, cl, now, phase>>
  /\ UNCHANGED <<warm, required>>
  /\ UNCHANGED liveVars

\* monitor_threads: a worker thread that is not alive is started again
MonitorRestart ==
  /\ ppc = "dead"
  /\ ppc' = "start"
  /\ api' = NoCall
  /\ UNCHANGED <<mem, disk, lock, cl, now, phase>>
  /\ UNCHANGED <<n, warm, required>>
  /\ UNCHANGED liveVars

\* process_video entry: the camera is initialised
CapStart ==
  /\ vpc = "start"
  /\ vpc' = "read" /\ fcount' = 0 /\ held' = None
  /\ api' = NoCall
  /\ UNCHANGED <<mem, disk, lock, cl, now, phase>>
  /\ UNCHANGED <<procVars, queue>>

\* read_frame; every third frame goes through the motion test, and a frame
\* with motion is handed to the push
CapRead(f, motion) ==
  /\ vpc = "read"
  /\ fcount' = (fcount + 1) % MotionEvery
  /\ IF fcount' = 0 /\ motion
     THEN vpc' = "full" /\ held' = f
     ELSE UNCHANGED <<vpc, held>>
  /\ api' = NoCall
  /\ UNCHANGED <<mem, disk, lock, cl, now, phase>>
  /\ UNCHANGED <<procVars, queue>>

\* queue.Queue(maxsize=FrameQueueSize): the queue holds maxsize items, the
\* test behind full() and put_nowait() (a maxsize of zero would never be full)
FullNever(q) == FALSE
Full(q) == Len(q) >= FrameQueueSize

\* if not self.frame_queue.full()
CapCheckFull ==
  /\ vpc = "full"
  /\ vpc' = IF ~Full(queue) THEN "put" ELSE "evict"
  /\ api' = NoCall
  /\ UNCHANGED <<mem, disk, lock, cl, now, phase>>
  /\ UNCHANGED <<procVars, queue, fcount, held>>

\* get_nowait() of the full branch; queue.Empty drops the new frame
CapEvictNewest ==
  /\ vpc = "evict"
  /\ vpc' = "read" /\ held' = None /\ UNCHANGED queue
  /\ api' = NoCall
  /\ UNCHANGED <<mem, disk, lock, cl, now, phase>>
  /\ UNCHANGED <<procVars, fcount>>
CapEvict ==
  /\ vpc = "evict"
  /\ IF queue = <<>>
     THEN vpc' = "read" /\ held' = None /\ UNCHANGED queue
     ELSE vpc' = "put" /\ queue' = Tail(queue) /\ UNCHANGED held
  /\ api' = NoCall
  /\ UNCHANGED <<mem, disk, lock, cl, now, phase>>
  /\ UNCHANGED <<procVars, fcount>>

\* put_nowait(frame); queue.Full drops the new frame
CapPut ==
  /\ vpc = "put"
  /\ queue' = IF ~Full(queue) THEN Append(queue, held) ELSE queue
  /\ vpc' = "read" /\ held' = None
  /\ api' = NoCall
  /\ UNCHANGED <<mem, disk, lock, cl, now, phase>>
  /\ UNCHANGED <<procVars, fcount>>

\* ------------------------------------------------------- the whole node
\* before the first start: no state file, nothing running
Init ==
  /\ mem = Default /\ disk = NoFile /\ lock = "free" /\ cl = "idle"
  /\ now = 0 /\ phase = "down"
  /\ api = NoCall
  /\ ppc = "off" /\ n = 0 /\ warm = FALSE
  /\ required = RequiredConsecutiveFrames
  /\ queue = <<>> /\ vpc = "off" /\ fcount = 0 /\ held = None
  /\ pre = Default /\ resumed = FALSE
  /\ hist = <<>> /\ fired = FALSE
  /\ pushed = <<>> /\ popped = FALSE /\ skipped = "none" /\ nextId = 1
  /\ shut = FALSE /\ pool = "up" /\ cap = FALSE /\ camlock = "free"
  /\ hpc = "off" /\ mpc = "off" /\ sd = <<>> /\ pthreads = <<>>
  /\ tpc = [t \in Callers |-> <<"idle", <<>> >>]
  /\ tsnap = [t \in Callers |-> Default] /\ after = <<>> /\ seen = Default
  /\ mfile = FALSE /\ loaded = FALSE /\ mlock = "free"
  /\ qpc = [t \in Callers |-> <<"idle">>]

storeHist == <<pre, resumed>>
confirmHist == <<hist, fired>>
pipeHist == <<pushed, popped, skipped, nextId>>

\* The node: every thread and the store; of the histories, `resumed` only.
NodeBoot ==
  /\ \E ok \in BOOLEAN :
       Boot(ok) /\ resumed' = (ok /\ LoadFrom(disk).unresolved)
  /\ UNCHANGED <<pre, confirmHist, pipeHist>>
  /\ UNCHANGED <<lifeVars, snapVars, modelVars>>
NodeCrash ==
  Crash /\ resumed' = FALSE /\ UNCHANGED <<pre, confirmHist, pipeHist>> /\ UNCHANGED <<lifeVars, snapVars, modelVars>>
NodeMutatorEnter ==
  MutatorEnter /\ resumed' = FALSE /\ UNCHANGED <<pre, confirmHist, pipeHist>> /\ UNCHANGED <<lifeVars, snapVars, modelVars>>
NodeTick == Tick /\ UNCHANGED <<storeHist, confirmHist, pipeHist>> /\ UNCHANGED <<lifeVars, snapVars, modelVars>>
NodeMutatorRelease == MutatorRelease /\ UNCHANGED <<storeHist, confirmHist, pipeHist>> /\ UNCHANGED <<lifeVars, snapVars, modelVars>>
NodeSaveOpen == SaveOpen /\ UNCHANGED <<storeHist, confirmHist, pipeHist>> /\ UNCHANGED <<lifeVars, snapVars, modelVars>>
NodeSaveDump == SaveDump /\ UNCHANGED <<storeHist, confirmHist, pipeHist>> /\ UNCHANGED <<lifeVars, snapVars, modelVars>>
NodeProcStart == ProcStart /\ UNCHANGED <<storeHist, confirmHist, pipeHist>> /\ UNCHANGED <<lifeVars, snapVars, modelVars>>
NodeProcGate == ProcGate /\ UNCHANGED <<storeHist, confirmHist, pipeHist>> /\ UNCHANGED <<lifeVars, snapVars, modelVars>>
NodeProcGet ==
  (\E th \in BOOLEAN : ProcGet(th)) /\ UNCHANGED <<storeHist, confirmHist, pipeHist>> /\ UNCHANGED <<lifeVars, snapVars, modelVars>>
NodeProcClassify ==
  (\E o \in Outcomes : ProcClassify(o)) /\ UNCHANGED <<storeHist, confirmHist, pipeHist>> /\ UNCHANGED <<lifeVars, snapVars, modelVars>>
NodeMonitorRestart == MonitorRestart /\ UNCHANGED <<storeHist, confirmHist, pipeHist>> /\ UNCHANGED <<lifeVars, snapVars, modelVars>>
NodeCapStart == CapStart /\ UNCHANGED <<storeHist, confirmHist, pipeHist>> /\ UNCHANGED <<lifeVars, snapVars, modelVars>>
NodeCapRead ==
  (\E m \in BOOLEAN : CapRead(1, m)) /\ UNCHANGED <<storeHist, confirmHist, pipeHist>> /\ UNCHANGED <<lifeVars, snapVars, modelVars>>
NodeCapCheckFull == CapCheckFull /\ UNCHANGED <<storeHist, confirmHist, pipeHist>> /\ UNCHANGED <<lifeVars, snapVars, modelVars>>
NodeCapEvict == CapEvict /\ UNCHANGED <<storeHist, confirmHist, pipeHist>> /\ UNCHANGED <<lifeVars, snapVars, modelVars>>
NodeCapPut == CapPut /\ UNCHANGED <<storeHist, confirmHist, pipeHist>> /\ UNCHANGED <<lifeVars, snapVars, modelVars>>

Next ==
  \/ NodeBoot \/ NodeCrash \/ NodeTick
  \/ NodeMutatorEnter \/ NodeMutatorRelease \/ NodeSaveOpen \/ NodeSaveDump
  \/ NodeProcStart \/ NodeProcGate \/ NodeProcGet \/ NodeProcClassify
  \/ NodeMonitorRestart
  \/ NodeCapStart \/ NodeCapRead \/ NodeCapCheckFull \/ NodeCapEvict \/ NodeCapPut

Spec == Init /\ [][Next]_vars

\* Fair scheduling of the node: time passes, every started thread keeps taking
\* steps, and a thread inside a mutator finishes it.  Nothing obliges anyone to
\* call a mutator, to kill the process or to restart it.
Fairness ==
  /\ WF_vars(NodeTick)
  /\ WF_vars(NodeMutatorRelease) /\ WF_vars(NodeSaveOpen) /\ WF_vars(NodeSaveDump)
  /\ WF_vars(NodeProcStart) /\ WF_vars(NodeProcGate) /\ WF_vars(NodeProcGet)
  /\ WF_vars(NodeProcClassify) /\ WF_vars(NodeMonitorRestart)
  /\ WF_vars(NodeCapStart) /\ WF_vars(NodeCapRead) /\ WF_vars(NodeCapCheckFull)
  /\ WF_vars(NodeCapEvict) /\ WF_vars(NodeCapPut)

FairSpec == Init /\ [][Next]_vars /\ Fairness

\* ------------------------------------------------------- the store alone
\* SystemState with its callers, the clock, and the process being killed and
\* started again; records `pre` and `resumed`.
StoreBoot ==
  /\ \E ok \in BOOLEAN :
       /\ Boot(ok)
       /\ resumed' = (ok /\ LoadFrom(disk).unresolved)
       /\ pre' = IF ok THEN LoadFrom(disk) ELSE pre
  /\ UNCHANGED <<confirmHist, pipeHist>>
  /\ UNCHANGED <<lifeVars, snapVars, modelVars>>
StoreCrash == Crash /\ resumed' = FALSE /\ UNCHANGED <<pre, confirmHist, pipeHist>> /\ UNCHANGED <<lifeVars, snapVars, modelVars>>
StoreTick == Tick /\ UNCHANGED <<storeHist, confirmHist, pipeHist>> /\ UNCHANGED <<lifeVars, snapVars, modelVars>>
StoreMutatorEnter ==
  MutatorEnter /\ pre' = mem /\ resumed' = FALSE /\ UNCHANGED <<confirmHist, pipeHist>> /\ UNCHANGED <<lifeVars, snapVars, modelVars>>
StoreMutatorRelease == MutatorRelease /\ UNCHANGED <<storeHist, confirmHist, pipeHist>> /\ UNCHANGED <<lifeVars, snapVars, modelVars>>
StoreSaveOpen == SaveOpen /\ UNCHANGED <<storeHist, confirmHist, pipeHist>> /\ UNCHANGED <<lifeVars, snapVars, modelVars>>
StoreSaveDump == SaveDump /\ pre' = mem /\ UNCHANGED <<resumed, confirmHist, pipeHist>> /\ UNCHANGED <<lifeVars, snapVars, modelVars>>

StoreNext ==
  \/ StoreBoot \/ StoreCrash \/ StoreTick
  \/ StoreMutatorEnter \/ StoreMutatorRelease \/ StoreSaveOpen \/ StoreSaveDump

StoreSpec == Init /\ [][StoreNext]_vars

\* The store again, on a file system where a write can be refused.
FlushNext ==
  \/ StoreNext
  \/ SaveFail /\ UNCHANGED <<storeHist, confirmHist, pipeHist, lifeVars, snapVars, modelVars>>

FlushSpec == Init /\ [][FlushNext]_vars

\* ------------------------------------------- the confirmation, recorded
\* The capture and inference loops over every RequiredConsecutiveFrames up to
\* MaxRequired; records `hist` and `fired`.
ConfirmInit ==
  /\ mem = Default /\ disk = NoFile /\ lock = "free" /\ cl = "idle"
  /\ now = 0 /\ phase = "down"
  /\ api = NoCall
  /\ ppc = "off" /\ n = 0 /\ warm = FALSE
  /\ required \in 1..MaxRequired
  /\ queue = <<>> /\ vpc = "off" /\ fcount = 0 /\ held = None
  /\ pre = Default /\ resumed = FALSE
  /\ hist = <<>> /\ fired = FALSE
  /\ pushed = <<>> /\ popped = FALSE /\ skipped = "none" /\ nextId = 1
  /\ shut = FALSE /\ pool = "up" /\ cap = FALSE /\ camlock = "free"
  /\ hpc = "off" /\ mpc = "off" /\ sd = <<>> /\ pthreads = <<>>
  /\ tpc = [t \in Callers |-> <<"idle", <<>> >>]
  /\ tsnap = [t \in Callers |-> Default] /\ after = <<>> /\ seen = Default
  /\ mfile = FALSE /\ loaded = FALSE /\ mlock = "free"
  /\ qpc = [t \in Callers |-> <<"idle">>]

ConfirmBoot == Boot(TRUE) /\ UNCHANGED <<storeHist, confirmHist, pipeHist>> /\ UNCHANGED <<lifeVars, snapVars, modelVars>>
ConfirmCrash == Crash /\ UNCHANGED <<storeHist, confirmHist, pipeHist>> /\ UNCHANGED <<lifeVars, snapVars, modelVars>>
ConfirmProcStart ==
  ProcStart /\ hist' = <<>> /\ fired' = FALSE /\ UNCHANGED <<storeHist, pipeHist>> /\ UNCHANGED <<lifeVars, snapVars, modelVars>>
ConfirmProcGate == ProcGate /\ UNCHANGED <<storeHist, confirmHist, pipeHist>> /\ UNCHANGED <<lifeVars, snapVars, modelVars>>
ConfirmProcGet ==
  (\E th \in BOOLEAN : ProcGet(th)) /\ UNCHANGED <<storeHist, confirmHist, pipeHist>> /\ UNCHANGED <<lifeVars, snapVars, modelVars>>
ConfirmProcClassify ==
  /\ Len(IF fired THEN <<>> ELSE hist) < MaxHist
  /\ \E o \in Outcomes :
       /\ ProcClassify(o)
       /\ IF o[1] = "raise"
          THEN UNCHANGED <<hist, fired>>
          ELSE /\ hist' = Append(IF fired THEN <<>> ELSE hist, o)
               /\ fired' = (api' = "send_accident_event")
  /\ UNCHANGED <<storeHist, pipeHist>>
  /\ UNCHANGED <<lifeVars, snapVars, modelVars>>
ConfirmCapStart == CapStart /\ UNCHANGED <<storeHist, confirmHist, pipeHist>> /\ UNCHANGED <<lifeVars, snapVars, modelVars>>
ConfirmCapRead ==
  (\E m \in BOOLEAN : CapRead(1, m)) /\ UNCHANGED <<storeHist, confirmHist, pipeHist>> /\ UNCHANGED <<lifeVars, snapVars, modelVars>>
ConfirmCapCheckFull == CapCheckFull /\ UNCHANGED <<storeHist, confirmHist, pipeHist>> /\ UNCHANGED <<lifeVars, snapVars, modelVars>>
ConfirmCapEvict == CapEvict /\ UNCHANGED <<storeHist, confirmHist, pipeHist>> /\ UNCHANGED <<lifeVars, snapVars, modelVars>>
ConfirmCapPut == CapPut /\ UNCHANGED <<storeHist, confirmHist, pipeHist>> /\ UNCHANGED <<lifeVars, snapVars, modelVars>>

ConfirmNext ==
  \/ ConfirmBoot \/ ConfirmCrash
  \/ ConfirmProcStart \/ ConfirmProcGate \/ ConfirmProcGet \/ ConfirmProcClassify
  \/ ConfirmCapStart \/ ConfirmCapRead \/ ConfirmCapCheckFull
  \/ ConfirmCapEvict \/ ConfirmCapPut

ConfirmSpec == ConfirmInit /\ [][ConfirmNext]_vars

\* ----------------------------------------------- the pipeline, recorded
\* The capture and inference loops with every captured frame labelled by its
\* order of arrival at the push; records `pushed`, `popped`, `skipped`
\* and `nextId`.
PipeBoot == Boot(TRUE) /\ UNCHANGED <<storeHist, confirmHist, pipeHist>> /\ UNCHANGED <<lifeVars, snapVars, modelVars>>
PipeCapStart == CapStart /\ UNCHANGED <<storeHist, confirmHist, pipeHist>> /\ UNCHANGED <<lifeVars, snapVars, modelVars>>
PipeCapRead ==
  /\ Len(pushed) < MaxPushes
  /\ \E m \in BOOLEAN :
       /\ CapRead(nextId, m)
       /\ IF vpc' = "full"
          THEN pushed' = Append(pushed, nextId) /\ nextId' = nextId + 1
          ELSE UNCHANGED <<pushed, nextId>>
  /\ UNCHANGED <<storeHist, confirmHist, popped, skipped>>
  /\ UNCHANGED <<lifeVars, snapVars, modelVars>>
PipeCapCheckFull == CapCheckFull /\ UNCHANGED <<storeHist, confirmHist, pipeHist>> /\ UNCHANGED <<lifeVars, snapVars, modelVars>>
PipeCapEvict == CapEvict /\ UNCHANGED <<storeHist, confirmHist, pipeHist>> /\ UNCHANGED <<lifeVars, snapVars, modelVars>>
PipeCapPut == CapPut /\ UNCHANGED <<storeHist, confirmHist, pipeHist>> /\ UNCHANGED <<lifeVars, snapVars, modelVars>>
PipeProcStart == ProcStart /\ UNCHANGED <<storeHist, confirmHist, pipeHist>> /\ UNCHANGED <<lifeVars, snapVars, modelVars>>
PipeProcGate == ProcGate /\ UNCHANGED <<storeHist, confirmHist, pipeHist>> /\ UNCHANGED <<lifeVars, snapVars, modelVars>>
PipeProcGet ==
  /\ \E th \in BOOLEAN :
       /\ ProcGet(th)
       /\ skipped' = IF queue = <<>> THEN "timeout"
                     ELSE IF warm /\ th THEN "throttled" ELSE "taken"
  /\ popped' = (popped \/ queue # <<>>)
  /\ UNCHANGED <<storeHist, confirmHist, pushed, nextId>>
  /\ UNCHANGED <<lifeVars, snapVars, modelVars>>
PipeProcClassify ==
  (\E o \in Outcomes : ProcClassify(o)) /\ UNCHANGED <<storeHist, confirmHist, pipeHist>> /\ UNCHANGED <<lifeVars, snapVars, modelVars>>

PipeNext ==
  \/ PipeBoot
  \/ PipeCapStart \/ PipeCapRead \/ PipeCapCheckFull \/ PipeCapEvict \/ PipeCapPut
  \/ PipeProcStart \/ PipeProcGate \/ PipeProcGet \/ PipeProcClassify

PipeSpec == Init /\ [][PipeNext]_vars

\* ------------------------------------------------- the store's start
\* A start over every state file the constructor can meet: none, a truncated
\* one, a record the store wrote, or a record whose event_status is no value
\* of Status (written by another version, or damaged).
BadStatus == "bogus"
FileRecords ==
  [node_id : {None} \cup NodeIds, last_event_id : {None} \cup EventIds,
   event_status : StatusValues \cup {BadStatus},
   last_timestamp : 0..MaxTime, unresolved : BOOLEAN]
Files == {NoFile, Partial} \cup {Written(d) : d \in FileRecords}

LoadInit ==
  /\ mem = Default /\ disk \in Files /\ lock = "free" /\ cl = "idle"
  /\ now = 0 /\ phase = "down"
  /\ api = NoCall
  /\ ppc = "off" /\ n = 0 /\ warm = FALSE
  /\ required = RequiredConsecutiveFrames
  /\ queue = <<>> /\ vpc = "off" /\ fcount = 0 /\ held = None
  /\ pre = Default /\ resumed = FALSE
  /\ hist = <<>> /\ fired = FALSE
  /\ pushed = <<>> /\ popped = FALSE /\ skipped = "none" /\ nextId = 1
  /\ shut = FALSE /\ pool = "up" /\ cap = FALSE /\ camlock = "free"
  /\ hpc = "off" /\ mpc = "off" /\ sd = <<>> /\ pthreads = <<>>
  /\ tpc = [t \in Callers |-> <<"idle", <<>> >>]
  /\ tsnap = [t \in Callers |-> Default] /\ after = <<>> /\ seen = Default
  /\ mfile = FALSE /\ loaded = FALSE /\ mlock = "free"
  /\ qpc = [t \in Callers |-> <<"idle">>]

LoadBoot == Boot(TRUE) /\ UNCHANGED <<storeHist, confirmHist, pipeHist>> /\ UNCHANGED <<lifeVars, snapVars, modelVars>>
LoadCrash == Crash /\ UNCHANGED <<storeHist, confirmHist, pipeHist>> /\ UNCHANGED <<lifeVars, snapVars, modelVars>>
LoadTick == Tick /\ UNCHANGED <<storeHist, confirmHist, pipeHist>> /\ UNCHANGED <<lifeVars, snapVars, modelVars>>

LoadNext == LoadBoot \/ LoadCrash \/ LoadTick

LoadSpec == LoadInit /\ [][LoadNext]_vars

\* ------------------------------------------------ the threads' life cycle
\* start(), the four threads with their exits, monitor_threads, and shutdown()
\* as main.py reaches it: handle_signal runs on the main thread, on top of
\* whatever that thread was doing, a shutdown() call included.
hists == <<storeHist, confirmHist, pipeHist>>
storeVars == <<mem, disk, lock, cl, now, phase, api>>

\* _start_thread(name) for a thread that is not alive: a new thread at the
\* entry point target_map[name]; a live thread is left alone
RestartedNever(pc, entry) == pc
RestartedAlways(pc, entry) == entry
Restarted(pc, entry) == IF pc = "dead" THEN entry ELSE pc

\* the pass of monitor_threads over the thread registered as "processing":
\* a new thread is created if that one is not alive
StartThreadAlways(ts, pc) == Append(ts, "alive")
StartThread(ts, pc) == IF pc = "dead" THEN Append(ts, "alive") ELSE ts
\* process_frames returns: the thread running it, the latest created, ends
Returned(ts) == [ts EXCEPT ![Len(ts)] = "ended"]
\* the threads for which is_alive() holds
Alive(ts) == {i \in 1..Len(ts) : ts[i] = "alive"}

\* CameraManager.release under the camera lock: _cap released if there is one
Release(c) == FALSE

LifeBoot ==
  /\ Boot(TRUE)
  /\ hpc' = "top" /\ mpc' = "top"
  /\ pthreads' = <<"alive">>
  /\ UNCHANGED <<shut, pool, cap, camlock, sd, hists, snapVars, modelVars>>

\* process_video entry: camera_manager.initialize() opens the capture ...
LifeCapStart ==
  /\ camlock = "free"
  /\ CapStart
  /\ cap' = TRUE
  /\ UNCHANGED <<shut, pool, camlock, hpc, mpc, sd, pthreads, hists, snapVars, modelVars>>
\* ... or returns False and the thread returns (line 161); in the loop a failed
\* read_frame leads to self.camera_manager.cap (line 176), an attribute that
\* CameraManager does not have: the thread ends through `finally: release()`
LifeCapFail ==
  /\ vpc \in {"start", "read"} /\ camlock = "free"
  /\ vpc' = "dead" /\ cap' = Release(cap) /\ held' = None
  /\ UNCHANGED <<storeVars, procVars, queue, fcount>>
  /\ UNCHANGED <<shut, pool, camlock, hpc, mpc, sd, pthreads, hists, snapVars, modelVars>>
\* loop head with the event set: the loop ends, `finally: release()`
LifeCapExit ==
  /\ vpc = "read" /\ shut /\ camlock = "free"
  /\ vpc' = "dead" /\ cap' = Release(cap)
  /\ UNCHANGED <<storeVars, procVars, queue, fcount, held>>
  /\ UNCHANGED <<shut, pool, camlock, hpc, mpc, sd, pthreads, hists, snapVars, modelVars>>
LifeCapRead ==
  /\ ~shut /\ camlock = "free" /\ cap
  /\ \E m \in BOOLEAN : CapRead(1, m)
  /\ UNCHANGED <<lifeVars, hists, snapVars, modelVars>>
LifeCapCheckFull == CapCheckFull /\ UNCHANGED <<lifeVars, hists, snapVars, modelVars>>
LifeCapEvict == CapEvict /\ UNCHANGED <<lifeVars, hists, snapVars, modelVars>>
LifeCapPut == CapPut /\ UNCHANGED <<lifeVars, hists, snapVars, modelVars>>

\* process_frames entry: load_model() succeeds, or fails and the thread returns
LifeProcStart ==
  /\ \/ ProcStart /\ UNCHANGED pthreads
     \/ /\ ppc = "start" /\ ppc' = "dead"
        /\ Len(pthreads) < MaxThreads
        /\ pthreads' = Returned(pthreads)
        /\ UNCHANGED <<storeVars, n, warm, required, liveVars>>
  /\ UNCHANGED <<shut, pool, cap, camlock, hpc, mpc, sd, hists, snapVars, modelVars>>
Quiet == {o \in Outcomes : o[1] # "accident"}
\* loop head: `while not self.shutdown_event.is_set()`
LifeProcGate ==
  /\ IF shut
     THEN /\ ppc = "top" /\ ppc' = "dead"
          /\ UNCHANGED <<storeVars, n, warm, required, liveVars>>
     ELSE ProcGate
  /\ pthreads' = IF ppc' = "dead" THEN Returned(pthreads) ELSE pthreads
  /\ UNCHANGED <<shut, pool, cap, camlock, hpc, mpc, sd, hists, snapVars, modelVars>>
\* (frames arrive far enough apart for the throttle to let them through)
LifeProcGet == ProcGet(FALSE) /\ UNCHANGED <<lifeVars, hists, snapVars, modelVars>>
\* thread_pool.submit after thread_pool.shutdown raises RuntimeError; before,
\* the frame is processed (here: no accident in sight) or the step raises
LifeProcClassify ==
  /\ \E o \in (IF pool = "down" THEN {<<"raise", 0>>} ELSE Quiet) :
       ProcClassify(o)
  /\ UNCHANGED <<lifeVars, hists, snapVars, modelVars>>

\* send_heartbeat returns True, or catches the RequestException and returns
\* False; heartbeat_worker does not look at the value and goes on to the wait
HeartbeatCalls == {"send_heartbeat", "send_heartbeat failed"}
ApiSendHeartbeat(ok) == IF ok THEN "send_heartbeat" ELSE "send_heartbeat failed"
AfterHeartbeatRaising(ok) == IF ok THEN "wait" ELSE "dead"
AfterHeartbeat(ok) == "wait"

\* heartbeat_worker, loop head: the event is set and the loop ends; or
\* config.get raises (KeyError, not caught) and the thread ends; or the
\* heartbeat is sent, and arrives or fails
LifeHeartbeat ==
  /\ hpc = "top"
  /\ IF shut
     THEN hpc' = "dead" /\ api' = NoCall
     ELSE \/ hpc' = "dead" /\ api' = NoCall
          \/ \E ok \in BOOLEAN :
               hpc' = AfterHeartbeat(ok) /\ api' = ApiSendHeartbeat(ok)
  /\ UNCHANGED <<mem, disk, lock, cl, now, phase, procVars, liveVars>>
  /\ UNCHANGED <<shut, pool, cap, camlock, mpc, sd, pthreads, hists, snapVars, modelVars>>
\* shutdown_event.wait(heartbeat_interval)
LifeHeartbeatWait ==
  /\ hpc = "wait"
  /\ hpc' = IF shut THEN "dead" ELSE "top"
  /\ UNCHANGED <<storeVars, procVars, liveVars>>
  /\ UNCHANGED <<shut, pool, cap, camlock, mpc, sd, pthreads, hists, snapVars, modelVars>>

\* monitor_threads, loop head
LifeMonitorTop ==
  /\ mpc = "top"
  /\ mpc' = IF shut THEN "dead" ELSE "scan"
  /\ UNCHANGED <<storeVars, procVars, liveVars>>
  /\ UNCHANGED <<shut, pool, cap, camlock, hpc, sd, pthreads, hists, snapVars, modelVars>>
\* the pass over self.threads: every thread that is not alive is started
\* again by _start_thread(name)
LifeMonitorScan ==
  /\ mpc = "scan"
  /\ vpc' = Restarted(vpc, "start")
  /\ ppc' = Restarted(ppc, "start")
  /\ hpc' = Restarted(hpc, "top")
  /\ mpc' = "wait"
  /\ pthreads' = StartThread(pthreads, ppc)
  /\ UNCHANGED <<storeVars, n, warm, required, queue, fcount, held>>
  /\ UNCHANGED <<shut, pool, cap, camlock, sd, hists, snapVars, modelVars>>
\* shutdown_event.wait(5)
LifeMonitorWait ==
  /\ mpc = "wait"
  /\ mpc' = IF shut THEN "dead" ELSE "top"
  /\ UNCHANGED <<storeVars, procVars, liveVars>>
  /\ UNCHANGED <<shut, pool, cap, camlock, hpc, sd, pthreads, hists, snapVars, modelVars>>

\* the pass finds a thread that is not alive and _start_thread raises
\* (Thread.start: RuntimeError when no thread can be created); nothing in
\* monitor_threads catches it and the monitor thread ends
LifeMonitorFail ==
  /\ mpc = "scan" /\ "dead" \in {vpc, ppc, hpc}
  /\ mpc' = "dead"
  /\ UNCHANGED <<storeVars, procVars, liveVars>>
  /\ UNCHANGED <<shut, pool, cap, camlock, hpc, sd, pthreads, hists, snapVars, modelVars>>

\* SIGINT or SIGTERM: handle_signal calls system.shutdown() on the main
\* thread; what the main thread was doing waits until the handler returns
LifeSignal ==
  /\ phase = "running" /\ Len(sd) < MaxSignals
  /\ sd' = Append(sd, "set")
  /\ UNCHANGED <<storeVars, procVars, liveVars>>
  /\ UNCHANGED <<shut, pool, cap, camlock, hpc, mpc, pthreads, hists, snapVars, modelVars>>

Top(q) == q[Len(q)]
Below(q) == SubSeq(q, 1, Len(q) - 1)
\* shutdown(), the call that is running: set the event (and sleep), shut the
\* pool down, then camera_manager.release(): take the camera lock, release
\* the capture, give the lock back
LifeShutdown ==
  /\ sd # <<>>
  /\ CASE Top(sd) = "set" ->
            /\ shut' = TRUE /\ sd' = Append(Below(sd), "pool")
            /\ UNCHANGED <<pool, cap, camlock>>
       [] Top(sd) = "pool" ->
            /\ pool' = "down" /\ sd' = Append(Below(sd), "acquire")
            /\ UNCHANGED <<shut, cap, camlock>>
       [] Top(sd) = "acquire" ->
            /\ camlock = "free"
            /\ camlock' = "main" /\ sd' = Append(Below(sd), "release")
            /\ UNCHANGED <<shut, pool, cap>>
       [] Top(sd) = "release" ->
            /\ cap' = Release(cap) /\ camlock' = "free" /\ sd' = Below(sd)
            /\ UNCHANGED <<shut, pool>>
  /\ UNCHANGED <<storeVars, procVars, liveVars>>
  /\ UNCHANGED <<hpc, mpc, pthreads, hists, snapVars, modelVars>>

LifeNext ==
  \/ LifeBoot
  \/ LifeCapStart \/ LifeCapFail \/ LifeCapExit \/ LifeCapRead
  \/ LifeCapCheckFull \/ LifeCapEvict \/ LifeCapPut
  \/ LifeProcStart \/ LifeProcGate \/ LifeProcGet \/ LifeProcClassify
  \/ LifeHeartbeat \/ LifeHeartbeatWait
  \/ LifeMonitorTop \/ LifeMonitorScan \/ LifeMonitorWait
  \/ LifeSignal \/ LifeShutdown

\* Every thread that can take a step keeps taking steps.  Nothing obliges a
\* signal to arrive, the camera to fail or a thread to die.
LifeFairness ==
  /\ WF_vars(LifeCapStart) /\ WF_vars(LifeCapExit) /\ WF_vars(LifeCapRead)
  /\ WF_vars(LifeCapCheckFull) /\ WF_vars(LifeCapEvict) /\ WF_vars(LifeCapPut)
  /\ WF_vars(LifeProcStart) /\ WF_vars(LifeProcGate) /\ WF_vars(LifeProcGet)
  /\ WF_vars(LifeProcClassify)
  /\ WF_vars(LifeHeartbeat) /\ WF_vars(LifeHeartbeatWait)
  /\ WF_vars(LifeMonitorTop) /\ WF_vars(LifeMonitorScan) /\ WF_vars(LifeMonitorWait)
  /\ WF_vars(LifeShutdown)

LifeSpec == Init /\ [][LifeNext]_vars /\ LifeFairness

\* The same threads while nobody asks for a shutdown.
SuperviseNext ==
  \/ LifeBoot
  \/ LifeCapStart \/ LifeCapFail \/ LifeCapRead
  \/ LifeCapCheckFull \/ LifeCapEvict \/ LifeCapPut
  \/ LifeProcStart \/ LifeProcGate \/ LifeProcGet \/ LifeProcClassify
  \/ LifeHeartbeat \/ LifeHeartbeatWait
  \/ LifeMonitorTop \/ LifeMonitorScan \/ LifeMonitorWait

SuperviseSpec == Init /\ [][SuperviseNext]_vars /\ LifeFairness

\* The same threads when the monitor thread itself can end.
WatchNext == SuperviseNext \/ LifeMonitorFail

WatchSpec == Init /\ [][WatchNext]_vars /\ LifeFairness

\* The same again with accidents in sight: a frame predicted as an accident,
\* at any confidence, so that streaks complete and reports are sent.
FlowReport ==
  /\ \E o \in Outcomes \ Quiet : ProcClassify(o)
  /\ UNCHANGED <<lifeVars, hists, snapVars, modelVars>>

FlowNext == SuperviseNext \/ FlowReport

FlowSpec == Init /\ [][FlowNext]_vars

\* --------------------------------------- mutators called concurrently
\* Two threads call the store's mutators.  A mutator assigns its fields one
\* after the other inside `with self._lock:`, leaves the block, and calls
\* _save, which holds no lock: it opens the file and builds the dict by
\* reading the fields one after the other, in the order of the dict display,
\* then pickle.dump writes it.  A thread switch can fall between any two of
\* these steps.
MaxCalls == 2         \* mutator calls made in a run
Fields == <<"node_id", "last_event_id", "event_status", "last_timestamp",
            "unresolved">>

\* the mutator calls: the fields the block assigns, in order, and the state
\* the block leaves
MutatorCalls(m, t) ==
  {[fs |-> <<"node_id">>, to |-> mark_node_id(m, id)] : id \in NodeIds}
    \cup {[fs |-> <<"last_event_id", "event_status", "last_timestamp", "unresolved">>,
           to |-> mark_reported(m, e, t)] : e \in EventIds}
    \cup {[fs |-> <<"event_status", "last_timestamp">>, to |-> mark_validated(m, t)],
          [fs |-> <<"event_status", "last_timestamp", "unresolved">>,
           to |-> mark_invalid(m, t)],
          [fs |-> <<"event_status", "last_timestamp", "unresolved">>,
           to |-> mark_resolved(m, t)],
          [fs |-> <<"unresolved">>, to |-> clear_unresolved(m)]}

\* calls that have begun and not yet finished their assignments
Assigning == {t \in Callers : tpc[t][1] = "assign"}

\* mark_*: the lock is taken; the values the block will assign are fixed by
\* the call and by time.time()
SnapEnter(t) ==
  /\ phase = "running" /\ tpc[t][1] = "idle" /\ lock = "free"
  /\ Len(after) + Cardinality(Assigning) < MaxCalls
  /\ \E c \in MutatorCalls(mem, now) :
       /\ tsnap' = [tsnap EXCEPT ![t] = c.to]
       /\ tpc' = [tpc EXCEPT ![t] = <<"assign", c.fs>>]
  /\ lock' = t
  /\ UNCHANGED <<mem, disk, after>>
  /\ UNCHANGED <<cl, now, phase, api, procVars, liveVars, hists, lifeVars, seen, modelVars>>
\* one assignment of the block; after the last one the mutation is complete
SnapAssign(t) ==
  /\ tpc[t][1] = "assign"
  /\ LET f == Head(tpc[t][2])
         rest == Tail(tpc[t][2]) IN
       /\ mem' = [mem EXCEPT ![f] = tsnap[t][f]]
       /\ IF rest # <<>>
          THEN tpc' = [tpc EXCEPT ![t] = <<"assign", rest>>] /\ UNCHANGED after
          ELSE tpc' = [tpc EXCEPT ![t] = <<"release", <<>> >>] /\ after' = Append(after, mem')
  /\ UNCHANGED <<disk, lock, tsnap>>
  /\ UNCHANGED <<cl, now, phase, api, procVars, liveVars, hists, lifeVars, seen, modelVars>>
\* end of the with block
SnapRelease(t) ==
  /\ tpc[t][1] = "release"
  /\ lock' = "free"
  /\ tpc' = [tpc EXCEPT ![t] = <<"open", <<>> >>]
  /\ UNCHANGED <<mem, disk, tsnap, after>>
  /\ UNCHANGED <<cl, now, phase, api, procVars, liveVars, hists, lifeVars, seen, modelVars>>
\* _save: open(filepath, 'wb')
SnapOpen(t) ==
  /\ tpc[t][1] = "open"
  /\ disk' = Partial
  /\ tpc' = [tpc EXCEPT ![t] = <<"read", Fields>>]
  /\ tsnap' = [tsnap EXCEPT ![t] = Default]
  /\ UNCHANGED <<mem, lock, after>>
  /\ UNCHANGED <<cl, now, phase, api, procVars, liveVars, hists, lifeVars, seen, modelVars>>
\* _save: one entry of the dict, read from the field as it is now
SnapRead(t) ==
  /\ tpc[t][1] = "read"
  /\ LET f == Head(tpc[t][2])
         rest == Tail(tpc[t][2]) IN
       /\ tsnap' = [tsnap EXCEPT ![t][f] = mem[f]]
       /\ tpc' = [tpc EXCEPT ![t] =
                    IF rest # <<>> THEN <<"read", rest>> ELSE <<"dump", <<>> >>]
  /\ UNCHANGED <<mem, disk, lock, after>>
  /\ UNCHANGED <<cl, now, phase, api, procVars, liveVars, hists, lifeVars, seen, modelVars>>
\* _save: pickle.dump(data, f), and the file is closed
SnapDump(t) ==
  /\ tpc[t][1] = "dump"
  /\ disk' = Written(Snapshot(tsnap[t]))
  /\ tpc' = [tpc EXCEPT ![t] = <<"idle", <<>> >>]
  /\ UNCHANGED <<mem, lock, tsnap, after>>
  /\ UNCHANGED <<cl, now, phase, api, procVars, liveVars, hists, lifeVars, seen, modelVars>>

\* is_unresolved, is_in_cooldown, has_cooldown_elapsed: `with self._lock:`
\* the reader waits for the lock, and reads the fields while holding it
ReaderEntersUnlocked(l) == TRUE
ReaderEnters(l) == l = "free"
SnapQuery ==
  /\ phase = "running" /\ ReaderEnters(lock)
  /\ seen' = mem
  /\ UNCHANGED <<mem, disk, lock, tpc, tsnap, after>>
  /\ UNCHANGED <<cl, now, phase, api, procVars, liveVars, hists, lifeVars, modelVars>>

SnapBoot == Boot(TRUE) /\ UNCHANGED <<hists, lifeVars, snapVars, modelVars>>

SnapNext ==
  \/ SnapBoot \/ SnapQuery
  \/ \E t \in Callers :
       \/ SnapEnter(t) \/ SnapAssign(t) \/ SnapRelease(t)
       \/ SnapOpen(t) \/ SnapRead(t) \/ SnapDump(t)

SnapSpec == Init /\ [][SnapNext]_vars

\* ----------------------------------------------------- the ModelManager
\* load_model and predict called from two threads on one ModelManager, and
\* download_model putting the model file in place.  Both methods run inside
\* `with self._lock:` and _lock is a threading.Lock: acquiring it waits until
\* it is free, whoever holds it.  A call is at "<method>" while it waits for
\* the lock and at "<method>:locked" once it holds it; "predict>load_model"
\* is the load_model call made by predict (line 108), waiting for the lock.
modelRest == <<storeVars, procVars, liveVars, hists, lifeVars, snapVars>>
At(t) == qpc[t][1]

\* download_model: the file is fetched if it is not there; a failed download
\* or integrity check leaves no file
DownloadModel ==
  /\ ~mfile
  /\ mfile' \in BOOLEAN
  /\ UNCHANGED <<loaded, mlock, qpc, modelRest>>
\* a thread calls load_model or predict
ModelCall(t) ==
  /\ At(t) \in {"idle", "returned"}
  /\ \E m \in {"load_model", "predict"} : qpc' = [qpc EXCEPT ![t] = <<m>>]
  /\ UNCHANGED <<mfile, loaded, mlock, modelRest>>
\* `with self._lock:` the lock is taken once it is free
ModelAcquire(t) ==
  /\ At(t) \in {"load_model", "predict", "predict>load_model"}
  /\ mlock = "free"
  /\ mlock' = t
  /\ qpc' = [qpc EXCEPT ![t] = <<At(t) \o ":locked">>]
  /\ UNCHANGED <<mfile, loaded, modelRest>>
\* load_model under the lock: True if the model is loaded or load_learner
\* loads it; False if the file is missing or load_learner raises.  Called by
\* predict, True lets predict go on and False makes it return ("unknown", 0.0)
LoadModel(t) ==
  /\ At(t) \in {"load_model:locked", "predict>load_model:locked"}
  /\ \E ok \in (IF loaded THEN {TRUE} ELSE IF mfile THEN BOOLEAN ELSE {FALSE}) :
       /\ loaded' = (loaded \/ ok)
       /\ IF At(t) = "load_model:locked"
          THEN qpc' = [qpc EXCEPT ![t] = <<"returned", ok>>] /\ mlock' = "free"
          ELSE IF ok
               THEN qpc' = [qpc EXCEPT ![t] = <<"predict:run">>] /\ UNCHANGED mlock
               ELSE qpc' = [qpc EXCEPT ![t] = <<"returned", "unknown">>] /\ mlock' = "free"
  /\ UNCHANGED <<mfile, modelRest>>
\* predict under the lock: `if not self._model_loaded:` calls load_model
PredictCheck(t) ==
  /\ At(t) = "predict:locked"
  /\ qpc' = [qpc EXCEPT ![t] = IF loaded THEN <<"predict:run">>
                                         ELSE <<"predict>load_model">>]
  /\ UNCHANGED <<mfile, loaded, mlock, modelRest>>
\* self._model.predict(img): the label is returned, or the call raises and
\* ("unknown", 0.0) is returned; the with block ends
PredictRun(t) ==
  /\ At(t) = "predict:run"
  /\ \E v \in {"label", "unknown"} : qpc' = [qpc EXCEPT ![t] = <<"returned", v>>]
  /\ mlock' = "free"
  /\ UNCHANGED <<mfile, loaded, modelRest>>

ModelNext ==
  \/ DownloadModel
  \/ \E t \in Callers :
       \/ ModelCall(t) \/ ModelAcquire(t) \/ LoadModel(t)
       \/ PredictCheck(t) \/ PredictRun(t)

ModelSpec == Init /\ [][ModelNext]_vars


\* =========================================================== the claims
Terminal == {"INVALID", "RESOLVED"}

\* C1 (at-most-one-open-event): while the store's unresolved flag is true, no
\* step of the running node calls the client's send-event operation.
C1_NoReportWhileUnresolved ==
  [][(phase = "running" /\ mem.unresolved) => api' # "send_accident_event"]_vars

\* C2 (resumability, no re-submission): in a run that started from a persisted
\* open event, no send-event call is made as long as no mutator has closed or
\* replaced that event.
C2_NoResubmissionAfterResume ==
  [][resumed => api' # "send_accident_event"]_vars

\* C3 (resumability, clock): after a start that loaded a persisted Validated
\* event with timestamp T, the in-memory timestamp is T, and for every cooldown
\* c the store reports "in cooldown" exactly while now - T < c and "cooldown
\* elapsed" exactly when now - T >= c.
C3_ResumedCooldownClock ==
  (resumed /\ disk.file = "written" /\ disk.data.event_status = "validated") =>
    /\ mem.event_status = "VALIDATED"
    /\ mem.last_timestamp = disk.data.last_timestamp
    /\ \A c \in 0..(MaxTime + 1) :
         /\ is_in_cooldown(mem, now, c) <=> (now - disk.data.last_timestamp < c)
         /\ has_cooldown_elapsed(mem, now, c) <=> (now - disk.data.last_timestamp >= c)

\* C3 witness: a resumed Validated event, stamped after tick 0, whose cooldown
\* has elapsed since the persisted stamp.
C3_Witness ==
  /\ resumed /\ mem.event_status = "VALIDATED"
  /\ mem.last_timestamp > 0
  /\ now - mem.last_timestamp >= AccidentCooldown

\* the process was killed, or a caller outside the node's loops is inside a
\* store mutator
Interfered == phase = "down" \/ cl # "idle"

\* C4 (auto-resolution): once a Validated open event's cooldown has elapsed, the
\* running node, left to itself, eventually has the event Resolved with
\* unresolved cleared.
C4_AutoResolution ==
  (phase = "running" /\ cl = "idle" /\ mem.unresolved
     /\ has_cooldown_elapsed(mem, now, AccidentCooldown))
  ~> ((mem.event_status = "RESOLVED" /\ ~mem.unresolved) \/ Interfered)

\* C5 (eventual return to duty): every open event that reaches Validated
\* eventually reaches a terminal status with unresolved false, when the node
\* is left to itself and the process stays up.
C5_EventualReturnToDuty ==
  (phase = "running" /\ cl = "idle" /\ mem.unresolved
     /\ mem.event_status = "VALIDATED")
  ~> ((mem.event_status \in Terminal /\ ~mem.unresolved) \/ Interfered)

\* C6 (idempotent terminal transitions): once the status is Invalid or
\* Resolved, status, timestamp and unresolved stay as they are until a new
\* event is reported.
C6_TerminalIsFinal ==
  [][(phase = "running" /\ phase' = "running" /\ mem.event_status \in Terminal) =>
       \/ mem'.event_status = "REPORTED"
       \/ /\ mem'.event_status = mem.event_status
          /\ mem'.last_timestamp = mem.last_timestamp
          /\ mem'.unresolved = mem.unresolved]_vars

\* the claim's reading of a qualifying frame: accident at or above the threshold
QualifiesInclusive(o) == o[1] = "accident" /\ o[2] >= AccidentConfidenceThreshold
QualifiesStrict(o) == o[1] = "accident" /\ o[2] > AccidentConfidenceThreshold

Balance(h, j) ==
  Cardinality({i \in j..Len(h) : QualifiesStrict(h[i])})
    - Cardinality({i \in j..Len(h) : ~QualifiesStrict(h[i])})

Min(a, b) == IF a < b THEN a ELSE b
LastOf(sq, k) == SubSeq(sq, Len(sq) - k + 1, Len(sq))

\* C8 (queue overflow policy): as long as nothing has been popped, whenever no
\* push is in progress the queue holds the min(k, N) most recently pushed of
\* the k frames pushed so far, oldest first.
C8_DropOldest ==
  (~popped /\ vpc \notin {"full", "evict", "put"}) =>
    queue = LastOf(pushed, Min(Len(pushed), FrameQueueSize))

\* C8 witness: N + 1 frames pushed into the queue of capacity N, none popped.
C8_Witness ==
  /\ ~popped /\ vpc = "read"
  /\ Len(pushed) = FrameQueueSize + 1
  /\ Len(queue) = FrameQueueSize

\* C9 (crash-safe store): the state loaded by a start equals the in-memory
\* state before the mutation that was in progress when the process was killed,
\* or the in-memory state after it.
C9_ReloadIsPreOrPost ==
  [][(phase = "down" /\ phase' = "running") => mem' \in {pre, mem}]_vars

\* C10 (flush-then-release): whenever the store's lock is free, the persisted
\* record is the in-memory state.
C10_FlushBeforeRelease ==
  (phase = "running" /\ lock = "free") => LoadFrom(disk) = mem

\* _load cannot restore the file: it is truncated, or its event_status is no
\* value of Status
LoadFails(f) ==
  \/ f.file = "partial"
  \/ f.file = "written" /\ f.data.event_status \notin StatusValues

\* C11 (corrupt state file is a fresh start): a start whose state file fails
\* to load leaves the complete default state in memory, no field taken from
\* the file.
C11_FailedLoadIsDefault ==
  [][(phase = "down" /\ phase' = "running" /\ LoadFails(disk)) =>
       mem' = Default]_vars

\* C15 (register once): a start that finds a persisted node identifier makes
\* no register-node call.
C15_RegisterOnce ==
  [][(phase = "down" /\ LoadFrom(disk).node_id # None) =>
       api' # "register_node"]_vars

\* C17 (report failure leaves the node idle): a send-event call that returns a
\* failure result leaves the store and the state file as they were, starts no
\* poll, and leaves the inference loop at its head with the streak counter at
\* zero, so that the next streak can report again.
C17_FailedReportLeavesIdle ==
  [][(api' = "send_accident_event"
        /\ ~ApiSendAccidentEvent("text", None).success) =>
       /\ mem' = mem /\ disk' = disk
       /\ ppc' = "top" /\ n' = 0]_vars

\* C17 witness: a confirmed detection has just been handed to the client,
\* which returned a failure, and the loop is back at its head.
C17_Witness ==
  /\ api = "send_accident_event" /\ ppc = "top" /\ n = 0
  /\ ~ApiSendAccidentEvent("text", None).success
  /\ ~mem.unresolved

\* C18 (fail-open on exception): when the report flow ends by an exception
\* while the store has an open event, unresolved is cleared by the end of the
\* flow.
C18_FailOpen ==
  [][(api' = "send_accident_event" /\ mem.unresolved) => ~mem'.unresolved]_vars

\* C19 (no indefinite lock-out): every open event is eventually followed by a
\* state in which a new report is allowed: unresolved false and the inference
\* gate open, when the node is left to itself and the process stays up.
C19_NoIndefiniteLockOut ==
  (phase = "running" /\ cl = "idle" /\ mem.unresolved)
  ~> ((~mem.unresolved /\ ~is_in_cooldown(mem, now, AccidentCooldown))
        \/ Interfered)

\* C20 (terminal on invalid/resolved): with the backend answering invalid or
\* resolved to every poll of the open event, a Reported or Validated open
\* event eventually has a terminal status with unresolved cleared.
C20_TerminalOnVerdict ==
  (phase = "running" /\ cl = "idle" /\ mem.unresolved
     /\ mem.event_status \in {"REPORTED", "VALIDATED"})
  ~> ((mem.event_status \in Terminal /\ ~mem.unresolved) \/ Interfered)

\* the monitor thread is in its loop
Supervising == mpc \in {"top", "scan", "wait"} /\ ~shut

\* C12 (supervisor restart): while the event is not set and the monitor loop
\* runs, a capture, inference or heartbeat thread that has ended is eventually
\* running again from its entry point.
C12_SupervisorRestart ==
  /\ (Supervising /\ vpc = "dead") ~> (vpc = "start" \/ ~Supervising)
  /\ (Supervising /\ ppc = "dead") ~> (ppc = "start" \/ ~Supervising)
  /\ (Supervising /\ hpc = "dead") ~> (hpc = "top" \/ ~Supervising)

\* C12 witness: the capture thread is at its entry point again after frames
\* of an earlier run of it were queued, and the heartbeat thread has ended.
C12_Witness ==
  /\ Supervising /\ vpc = "start" /\ queue # <<>> /\ hpc = "dead"

\* every thread has ended
AllExited == vpc = "dead" /\ ppc = "dead" /\ hpc = "dead" /\ mpc = "dead"

\* C13 (shutdown liveness): once the event is set, the capture, inference,
\* heartbeat and monitor threads all eventually end.
C13_ShutdownLiveness == shut ~> AllExited

\* C14 (shutdown is idempotent and safe to call again): no shutdown() call
\* waits for the camera lock while a shutdown() call it interrupted holds it,
\* so every call returns.
C14_ShutdownCallsReturn ==
  ~(sd # <<>> /\ Top(sd) = "acquire" /\ camlock = "main")

\* C16 (deadlock freedom): the camera lock is held only by the call that is
\* running; it is never held by a call suspended under a signal handler,
\* which sleeps and then waits for that same lock.
C16_NoLockHeldAcrossWait ==
  (camlock = "main" => (sd # <<>> /\ Top(sd) = "release"))

C22_RevalidateIsNoOp ==
  [][(phase = "running" /\ phase' = "running"
        /\ mem.event_status = "VALIDATED" /\ mem'.event_status = "VALIDATED") =>
       /\ mem'.last_timestamp = mem.last_timestamp
       /\ \A c \in 0..(MaxTime + 1) :
            has_cooldown_elapsed(mem, now, c) => has_cooldown_elapsed(mem', now, c)]_vars

Open == {"REPORTED", "VALIDATED"}

\* C23 (unresolved matches status): in every state of the store, whatever
\* mutators were called, unresolved is true exactly when the status is
\* Reported or Validated.
C23_UnresolvedMatchesStatus ==
  phase = "running" => (mem.unresolved <=> mem.event_status \in Open)

Last(h) == h[Len(h)]
\* this step processed a frame (compression and prediction returned)
Processed == ppc = "classify" /\ hist' # hist

\* C25 as claimed (strict reset): a processed frame that does not qualify
\* (label other than accident, or confidence below the threshold) sets the
\* consecutive-frame counter to zero, whatever it was, and does not fire.
C25_StrictReset ==
  [][(Processed /\ ~QualifiesInclusive(Last(hist'))) =>
       (n' = 0 /\ ~fired')]_vars

\* C25 as amended: a processed frame that does not qualify (label other than
\* accident, or confidence below the threshold) lowers the consecutive-frame
\* counter by one, not below zero, and does not fire.
C25_DecayByOne ==
  [][(Processed /\ ~QualifiesInclusive(Last(hist'))) =>
       (n' = Max0(n - 1) /\ ~fired')]_vars

\* C25 witness: a frame that does not qualify has just been processed and the
\* counter, which stood at two or more, is still above zero.
C25_Witness ==
  /\ hist # <<>> /\ ~QualifiesInclusive(Last(hist))
  /\ n >= 1 /\ ~fired /\ ppc = "top"

\* C26 as claimed (inclusive threshold): a processed frame labelled accident
\* with confidence exactly at the threshold qualifies: it increments the
\* counter or completes the streak, as a frame above the threshold does.
C26_InclusiveThreshold ==
  [][(Processed /\ Last(hist') = <<"accident", AccidentConfidenceThreshold>>) =>
       \/ n' = n + 1 /\ ~fired'
       \/ n + 1 >= required /\ n' = 0 /\ fired']_vars

\* C26 as amended: a processed frame labelled accident qualifies (increments
\* the counter, or completes the streak and fires) only with confidence
\* strictly above the threshold; with confidence exactly at the threshold it
\* is handled as a frame below it: the counter goes down by one, not below
\* zero, and nothing fires.
C26_StrictThreshold ==
  [][(Processed /\ Last(hist')[1] = "accident") =>
       IF Last(hist')[2] > AccidentConfidenceThreshold
       THEN \/ n + 1 < required /\ n' = n + 1 /\ ~fired'
            \/ n + 1 >= required /\ n' = 0 /\ fired'
       ELSE n' = Max0(n - 1) /\ ~fired']_vars

\* C26 witness: an accident frame with confidence exactly at the threshold
\* has just been processed in the middle of a streak, which it did not extend.
C26_Witness ==
  /\ hist # <<>> /\ Last(hist) = <<"accident", AccidentConfidenceThreshold>>
  /\ Len(hist) >= 3 /\ n = 1 /\ ~fired /\ ppc = "top"

\* C27 (throttled frames do not touch the detection window): a pass of the
\* inference loop whose pop times out, or whose frame is skipped by the
\* throttle, goes back to the loop head without a classifier call, leaves the
\* consecutive-frame counter and the store as they were, and reports nothing.
C27_SkipLeavesWindow ==
  [][(ppc = "get" /\ ppc' # "get" /\ skipped' \in {"timeout", "throttled"}) =>
       /\ ppc' = "top"
       /\ n' = n /\ mem' = mem
       /\ api' # "send_accident_event"]_vars

\* C27 witness: a frame has just been skipped by the throttle in the middle
\* of a streak.
C27_Witness == skipped = "throttled" /\ ppc = "top" /\ n >= 1

\* C28 (push always admits the new frame): when a push returns, under any
\* interleaving with the inference loop's pops, the frame that was pushed is
\* the newest frame of the queue.
C28_PushAdmitsNewFrame ==
  [][(vpc \in {"full", "evict", "put"} /\ vpc' = "read") =>
       (queue' # <<>> /\ Last(queue') = held)]_vars

\* C29 (bounded queue): the frame queue never holds more than FrameQueueSize
\* frames, whatever the interleaving of pushes and pops, also while no
\* inference thread is popping.
C29_BoundedQueue == Len(queue) <= FrameQueueSize

\* C29 witness: a push arrives at a full queue while the inference thread has
\* ended and pops nothing.
C29_Witness ==
  /\ Len(queue) = FrameQueueSize /\ vpc = "evict" /\ ppc = "dead"

\* C30 (no hybrid snapshot under concurrent mutators): every record written
\* to the state file is the in-memory state as one single mutation left it:
\* one of the mutations completed so far or, counted in the code's favour, the
\* one whose assignments are under way.  No record combines fields of one
\* mutation with fields of another that is only partly applied.
C30_WrittenIsSomeCompletedState ==
  [][(disk' # disk /\ disk'.file = "written") =>
       \/ \E i \in 1..Len(after) : disk'.data = Snapshot(after[i])
       \/ \E t \in Assigning : disk'.data = Snapshot(tsnap[t])]_vars

\* C31: a mutation whose flush fails is not committed: when _save fails to
\* write the file, the state in memory afterwards is the record the file holds
\* (the last one persisted), or the default state while there is no file.
C31_FailedFlushNotCommitted ==
  [][(cl = "released" /\ cl' = "idle" /\ phase' = "running" /\ disk' = disk)
       => mem' = LoadFrom(disk')]_vars

\* the fields the readers of the store look at
View(m) == <<m.event_status, m.last_timestamp, m.unresolved>>

\* C32: what a reader of the store finds (status, time of the last transition,
\* unresolved flag) is the state left by one completed mutation, or the state
\* the store started with; never some fields of a mutation without the others.
C32_ReadersSeeCompletedMutations ==
  View(seen) \in {View(Default)} \cup {View(after[i]) : i \in 1..Len(after)}
\* a reader found the state left by mark_reported while another mutator is in
\* the middle of its assignments
C32_Witness ==
  /\ seen.event_status = "REPORTED" /\ seen.unresolved
  /\ \E t \in Callers : tpc[t][1] = "assign" /\ Len(tpc[t][2]) = 1
  /\ mem # seen

\* C33: while the event is not set, each of the four threads (capture,
\* inference, heartbeat and the monitor itself) that has ended is eventually
\* running again.
C33_AllFourSupervised ==
  /\ (~shut /\ vpc = "dead") ~> (vpc # "dead" \/ shut)
  /\ (~shut /\ ppc = "dead") ~> (ppc # "dead" \/ shut)
  /\ (~shut /\ hpc = "dead") ~> (hpc # "dead" \/ shut)
  /\ (~shut /\ mpc = "dead") ~> (mpc # "dead" \/ shut)

\* C34: at most one thread started under the name "processing" is alive, and
\* one is alive exactly while the inference loop has not ended; a pass of the
\* monitor leaves every thread that is alive as it is and starts at most one
\* thread for a name whose thread has ended.
C34_OneThreadPerName ==
  [][/\ Cardinality(Alive(pthreads')) <= 1
     /\ (Alive(pthreads') # {}) <=> (ppc' \notin {"off", "dead"})
     /\ (mpc = "scan" /\ mpc' = "wait") =>
          /\ vpc # "dead" => vpc' = vpc
          /\ hpc # "dead" => hpc' = hpc
          /\ ppc # "dead" => (ppc' = ppc /\ pthreads' = pthreads)
          /\ ppc = "dead" => Len(pthreads') = Len(pthreads) + 1]_vars
\* the monitor has just started a second inference thread, which has not run
\* yet, and has left the running capture and heartbeat threads alone
C34_Witness ==
  /\ mpc = "wait" /\ ppc = "start" /\ Len(pthreads) = 2
  /\ vpc \notin {"off", "start", "dead"} /\ hpc = "wait"

\* C35: once the event is set, no thread is started: a capture, inference
\* or heartbeat thread that has ended stays ended.
C35_NoRestartAfterCancel ==
  [][shut => /\ vpc = "dead" => vpc' = "dead"
             /\ ppc = "dead" => ppc' = "dead"
             /\ hpc = "dead" => hpc' = "dead"
             /\ Len(pthreads') = Len(pthreads)]_vars

\* C36: shutdown() shuts the pool down only after it has set the event and
\* waited, and every shutdown() call that has begun completes, whatever the
\* loops are doing, with the pool shut down and the camera released.
C36_ShutdownCompletes ==
  /\ [][pool' = "down" => shut]_vars
  /\ (sd # <<>>) ~> (sd = <<>> /\ pool = "down" /\ ~cap)

\* C37: a heartbeat that was sent, whether it arrived or failed, leaves the
\* store and the other threads as they were and the heartbeat thread goes on
\* to its wait; while the event is not set the wait ends at the loop head,
\* where the next heartbeat is sent.
C37_HeartbeatNeverEscalates ==
  /\ [][(hpc = "top" /\ hpc' # "top" /\ api' \in HeartbeatCalls)
          => /\ hpc' = "wait"
             /\ mem' = mem /\ disk' = disk
             /\ vpc' = vpc /\ ppc' = ppc /\ mpc' = mpc
             /\ pthreads' = pthreads]_vars
  /\ [][(hpc = "wait" /\ hpc' # "wait" /\ ~shut) => hpc' = "top"]_vars
  /\ (hpc = "wait") ~> (hpc = "top" \/ shut)
\* a heartbeat has just failed and the heartbeat thread is in its wait, with
\* the other three threads running
C37_Witness ==
  /\ api = "send_heartbeat failed" /\ hpc = "wait"
  /\ vpc \notin {"off", "dead"} /\ ppc \notin {"off", "dead"} /\ mpc # "dead"

\* C38: a capture thread that ends because the camera fails, or an inference
\* thread that ends because the model does not load, leaves the process and
\* the other three threads running; while the monitor loop runs and the event
\* is not set the thread is started again, and a thread whose initialisation
\* then succeeds goes into its loop.
C38_LocalFailureRecovers ==
  /\ [][(vpc \in {"start", "read"} /\ vpc' = "dead" /\ ~shut)
          => /\ phase' = "running"
             /\ ppc' = ppc /\ hpc' = hpc /\ mpc' = mpc]_vars
  /\ [][(ppc = "start" /\ ppc' = "dead")
          => /\ phase' = "running"
             /\ vpc' = vpc /\ hpc' = hpc /\ mpc' = mpc]_vars
  /\ [][(vpc = "start" /\ vpc' \notin {"start", "dead"}) => (cap' /\ vpc' = "read")]_vars
  /\ [][(ppc = "start" /\ ppc' \notin {"start", "dead"}) => ppc' = "top"]_vars
  /\ (Supervising /\ vpc = "dead") ~> (vpc # "dead" \/ ~Supervising)
  /\ (Supervising /\ ppc = "dead") ~> (ppc # "dead" \/ ~Supervising)
\* the first inference thread ended on a failed load_model, the second one
\* loaded the model and is in its loop; the capture thread holds the camera
C38_Witness ==
  /\ Len(pthreads) = 2 /\ pthreads[1] = "ended" /\ ppc = "get"
  /\ vpc = "read" /\ cap /\ Supervising /\ hpc # "dead"

\* C39: predict called while the model is not loaded never waits for the
\* model lock while holding it itself, a wait that cannot end.
C39_PredictNeverWaitsOnOwnLock ==
  \A t \in Callers : ~(At(t) = "predict>load_model" /\ mlock = t)
====
